---- MODULE Spec2Model ----
(***************************************************************************)
(* The back-end orchestration state machine of construct-hub               *)
(* (src/backend/orchestration/index.ts), as the Amazon States Language     *)
(* definition the Orchestration construct builds:                          *)
(*                                                                         *)
(*   Track Execution Infos -> DocGen (Parallel, one branch per language)   *)
(*     -> Any Success? -> [Add to catalog.json] -> Any Failure?            *)
(*     -> Send to Dead Letter Queue -> Fail   |   Success                  *)
(*                                                                         *)
(* One execution is modelled from its start to its end.  The state         *)
(* document is a JSON object, modelled as a function from its keys.        *)
(***************************************************************************)
EXTENDS Integers, Sequences, FiniteSets, TLC

VARIABLES
    input,      \* the execution's input document (fixed at start)
    doc,        \* the state document handed from state to state ("$")
    pc,         \* name of the current top-level state
    status,     \* execution status: RUNNING, SUCCEEDED, FAILED, TIMED_OUT
    execError,  \* error name the execution ended with ("" if none)
    br,         \* per DocGen branch: current state, retry count, data
    catRetries, \* retries used by the retrier of 'Add to catalog.json'
    dlq,        \* the messages in the dead letter queue
    hist,       \* observation record (ghost): counts and orders of events
    redrive,    \* the redrive function and the queue it drains
    efs         \* the shared file system and the clean-up function

execVars == <<input, doc, pc, status, execError, br, catRetries, dlq, hist>>

vars == <<input, doc, pc, status, execError, br, catRetries, dlq, hist,
          redrive, efs>>

----------------------------------------------------------------------------
(* Configuration of the state machine *)

\* const SUPPORTED_LANGUAGES = [PYTHON, TYPESCRIPT]
SUPPORTED_LANGUAGES == <<"python", "typescript">>

Branches == 1..Len(SUPPORTED_LANGUAGES)

\* const docGenResultsKey = 'DocGen'
docGenResultsKey == "DocGen"

\* addRetry({ interval }) of a DocGen task: MaxAttempts takes its default,
\* the number of RETRIES of a matched error (States.ALL here).
BranchMaxAttempts == 3

\* addRetry({ errors: ['Lambda.TooManyRequestsException'], maxAttempts: 5 })
CatalogMaxAttempts == 5

TooManyRequests == "Lambda.TooManyRequestsException"

----------------------------------------------------------------------------
(* JSON documents *)

\* resultPath '$.k': the result is inserted in the document under key k,
\* replacing the value the key had.
Put_KeepExisting(d, k, v) ==
    [x \in (DOMAIN d) \cup {k} |-> IF x \in DOMAIN d THEN d[x] ELSE v]
Put(d, k, v) == [x \in (DOMAIN d) \cup {k} |-> IF x = k THEN v ELSE d[x]]

\* Condition.isPresent('$.DocGen[i].error')
IsPresent(d, i, k) == k \in DOMAIN d[docGenResultsKey][i]

\* The texts a task failure can carry as its Cause: the JSON text of a
\* function error, or the plain text of a service error.
JsonCause == "{\"errorMessage\":\"boom\"}"
PlainCause == "Rate Exceeded."
CauseTexts == {JsonCause, PlainCause}

\* States.StringToJson: defined on JSON texts only; on any other text the
\* intrinsic function fails and so does the state that evaluates it.
JsonTexts == {JsonCause}
IsJsonText(t) == t \in JsonTexts
StringToJson(t) == CASE t = JsonCause -> [errorMessage |-> "boom"]

\* The error output of a failed task: { Error, Cause }.
TaskErrors == [Error : {"Error", TooManyRequests}, Cause : CauseTexts]

\* Payloads the document-generation and catalog functions return.
DocGenPayloads == {"docs-v1"}
CatalogPayloads == {[ETag |-> "etag1", VersionId |-> "v1"]}

\* $$.Execution, as selected by 'Track Execution Infos'.
ExecutionInfos ==
    [Id |-> "exec-1", Name |-> "run-1", RoleArn |-> "role", StartTime |-> "t0"]

\* The trigger payload proper (package coordinate).
WorkItemKeys == {"pkg", "version"}
WorkItem == [pkg |-> "foo", version |-> "1.0.0"]

\* A document a previous execution left in the dead letter queue through the
\* 'Any Failure?' route, redriven as the input of this execution.
StaleExecutionInfos ==
    [Id |-> "exec-0", Name |-> "run-0", RoleArn |-> "role", StartTime |-> "t-1"]
StaleDocGen ==
    << [error |-> [errorMessage |-> "old"], language |-> "python"],
       [error |-> [errorMessage |-> "old"], language |-> "typescript"] >>
RedrivenItem ==
    Put(Put(WorkItem, "$TaskExecution", StaleExecutionInfos),
        docGenResultsKey, StaleDocGen)


\* The same, of an execution whose catalog update had run: the message also
\* holds that execution's catalogBuilderOutput.
StaleCatalogOutput == [ETag |-> "etag0", VersionId |-> "v0"]
RedrivenWithCatalog == Put(RedrivenItem, "catalogBuilderOutput", StaleCatalogOutput)

\* The message an execution left through the catch handler of 'Add to
\* catalog.json': the error output with the parsed cause under $.error.
RedrivenCatchItem ==
    [Error |-> "Error", Cause |-> JsonCause,
     error |-> [error |-> [errorMessage |-> "old"]]]

Inputs == {WorkItem, RedrivenItem, RedrivenWithCatalog, RedrivenCatchItem}

----------------------------------------------------------------------------
(* Initial state: the execution was started with an input *)

InitBranch == [pc |-> "Generate docs", retries |-> 0, caught |-> <<>>, out |-> <<>>]

InitHist ==
    [catalogEntries |-> 0,      \* entries into state 'Add to catalog.json'
     catalogCalls |-> 0,        \* invocations of the catalog function
     catalogLog |-> <<>>,       \* their outcomes: "ok" or the error name
     catalogCaught |-> FALSE,   \* the catcher of the catalog task was taken
     calls |-> [i \in Branches |-> 0],     \* invocations per DocGen task
     produced |-> [i \in Branches |-> 0],  \* results produced per branch
     order |-> <<>>,            \* branches in the order they finished
     joined |-> FALSE,          \* DocGen completed and wrote $.DocGen
     route |-> "none",          \* how 'Send to Dead Letter Queue' was reached
     sendFailed |-> FALSE]      \* the SQS send task failed

InitExecution ==
    /\ input \in Inputs
    /\ doc = input
    /\ pc = "Track Execution Infos"
    /\ status = "RUNNING"
    /\ execError = ""
    /\ br = [i \in Branches |-> InitBranch]
    /\ catRetries = 0
    /\ dlq = <<>>
    /\ hist = InitHist

----------------------------------------------------------------------------
(* States of the definition *)

\* Pass 'Track Execution Infos': resultPath '$.$TaskExecution', next DocGen.
TrackExecutionInfos ==
    /\ status = "RUNNING"
    /\ pc = "Track Execution Infos"
    /\ doc' = Put(doc, "$TaskExecution", ExecutionInfos)
    /\ pc' = "DocGen"
    /\ UNCHANGED <<input, status, execError, br, catRetries, dlq, hist>>

\* LambdaInvoke 'Generate <language> docs' of branch i: resultSelector and
\* outputPath make the branch output { language, success: Payload }; an
\* error is retried (States.ALL) while retries remain, then caught: the
\* error output { Error, Cause } becomes the input of 'Failed <language>'.
GenerateDocsOutput(i, payload) ==
    [language |-> SUPPORTED_LANGUAGES[i], success |-> payload]

GenerateDocsSucceeds(i) ==
    /\ status = "RUNNING" /\ pc = "DocGen" /\ br[i].pc = "Generate docs"
    /\ \E payload \in DocGenPayloads :
         br' = [br EXCEPT ![i].pc = "Done",
                          ![i].out = <<GenerateDocsOutput(i, payload)>>]
    /\ hist' = [hist EXCEPT !.calls[i] = @ + 1, !.produced[i] = @ + 1,
                            !.order = Append(@, i)]
    /\ UNCHANGED <<input, doc, pc, status, execError, catRetries, dlq>>

GenerateDocsFails_RetryForever(i) ==
    /\ status = "RUNNING" /\ pc = "DocGen" /\ br[i].pc = "Generate docs"
    /\ br' = [br EXCEPT ![i].retries = (@ + 1) % (BranchMaxAttempts + 1)]
    /\ hist' = [hist EXCEPT !.calls[i] = IF @ <= BranchMaxAttempts THEN @ + 1 ELSE @]
    /\ UNCHANGED <<input, doc, pc, status, execError, catRetries, dlq>>

GenerateDocsFails(i) ==
    /\ status = "RUNNING" /\ pc = "DocGen" /\ br[i].pc = "Generate docs"
    /\ \E e \in TaskErrors :
         br' = IF br[i].retries < BranchMaxAttempts
               THEN [br EXCEPT ![i].retries = @ + 1]
               ELSE [br EXCEPT ![i].pc = "Failed", ![i].caught = <<e>>]
    /\ hist' = [hist EXCEPT !.calls[i] = @ + 1]
    /\ UNCHANGED <<input, doc, pc, status, execError, catRetries, dlq>>

\* Pass 'Failed <language>': parameters { error: StringToJson($.Cause),
\* language }, the state's output replacing its input.  When the Cause is
\* not a JSON text the Pass state fails; a Pass state has no catcher, so the
\* branch fails, the Parallel state fails (it has no catcher either), its
\* other branches are stopped and the execution fails.
FailedLanguageOutput(i) ==
    [error |-> StringToJson(br[i].caught[1].Cause),
     language |-> SUPPORTED_LANGUAGES[i]]

StopBranches == [i \in Branches |->
    IF br[i].pc = "Done" THEN br[i] ELSE [br[i] EXCEPT !.pc = "Aborted"]]

FailedLanguage(i) ==
    /\ status = "RUNNING" /\ pc = "DocGen" /\ br[i].pc = "Failed"
    /\ IF IsJsonText(br[i].caught[1].Cause)
       THEN /\ br' = [br EXCEPT ![i].pc = "Done",
                                ![i].out = <<FailedLanguageOutput(i)>>]
            /\ hist' = [hist EXCEPT !.produced[i] = @ + 1,
                                    !.order = Append(@, i)]
            /\ UNCHANGED <<status, execError>>
       ELSE /\ br' = StopBranches
            /\ status' = "FAILED"
            /\ execError' = "States.Runtime"
            /\ UNCHANGED hist
    /\ UNCHANGED <<input, doc, pc, catRetries, dlq>>

\* Parallel 'DocGen', resultPath '$.DocGen': once every branch has ended, the
\* array of the branch outputs, in the order of the branches, is put in the
\* document; next 'Any Success?'.
DocGenResults_ByCompletion == [k \in Branches |-> br[hist.order[k]].out[1]]
DocGenResults == [i \in Branches |-> br[i].out[1]]

DocGen ==
    /\ status = "RUNNING" /\ pc = "DocGen"
    /\ \A i \in Branches : br[i].pc = "Done"
    /\ doc' = Put(doc, docGenResultsKey, DocGenResults)
    /\ pc' = "Any Success?"
    /\ hist' = [hist EXCEPT !.joined = TRUE]
    /\ UNCHANGED <<input, status, execError, br, catRetries, dlq>>

\* Choice 'Any Success?': some $.DocGen[i].error is not present -> 'Add to
\* catalog.json'; otherwise 'Any Failure?'.
AnySuccessCondition_Inverted == \E i \in Branches : IsPresent(doc, i, "error")
AnySuccessCondition_All == \A i \in Branches : ~IsPresent(doc, i, "error")
AnySuccessCondition == \E i \in Branches : ~IsPresent(doc, i, "error")

AnySuccess ==
    /\ status = "RUNNING" /\ pc = "Any Success?"
    /\ IF AnySuccessCondition
       THEN /\ pc' = "Add to catalog.json"
            /\ hist' = [hist EXCEPT !.catalogEntries = @ + 1]
       ELSE /\ pc' = "Any Failure?"
            /\ UNCHANGED hist
    /\ UNCHANGED <<input, doc, status, execError, br, catRetries, dlq>>

\* LambdaInvoke 'Add to catalog.json': resultSelector { ETag, VersionId },
\* resultPath '$.catalogBuilderOutput', next 'Any Failure?'.
addToCatalogSucceeds ==
    /\ status = "RUNNING" /\ pc = "Add to catalog.json"
    /\ \E payload \in CatalogPayloads :
         doc' = Put(doc, "catalogBuilderOutput",
                    [ETag |-> payload.ETag, VersionId |-> payload.VersionId])
    /\ pc' = "Any Failure?"
    /\ hist' = [hist EXCEPT !.catalogCalls = @ + 1,
                            !.catalogLog = Append(@, "ok")]
    /\ UNCHANGED <<input, status, execError, br, catRetries, dlq>>

\* Its retrier matches Lambda.TooManyRequestsException only; its catcher
\* matches every error and has no resultPath, so the error output
\* { Error, Cause } replaces the document handed to 'Failed to add to
\* catalog.json'.
addToCatalogFails_RetryAll ==
    /\ status = "RUNNING" /\ pc = "Add to catalog.json"
    /\ \E e \in TaskErrors :
         /\ IF catRetries < CatalogMaxAttempts
            THEN /\ catRetries' = catRetries + 1
                 /\ UNCHANGED <<doc, pc>>
                 /\ hist' = [hist EXCEPT !.catalogCalls = @ + 1,
                                         !.catalogLog = Append(@, e.Error)]
            ELSE /\ doc' = e
                 /\ pc' = "Failed to add to catalog.json"
                 /\ UNCHANGED catRetries
                 /\ hist' = [hist EXCEPT !.catalogCalls = @ + 1,
                                         !.catalogLog = Append(@, e.Error),
                                         !.catalogCaught = TRUE]
    /\ UNCHANGED <<input, status, execError, br, dlq>>

addToCatalogFails ==
    /\ status = "RUNNING" /\ pc = "Add to catalog.json"
    /\ \E e \in TaskErrors :
         /\ IF e.Error = TooManyRequests /\ catRetries < CatalogMaxAttempts
            THEN /\ catRetries' = catRetries + 1
                 /\ UNCHANGED <<doc, pc>>
                 /\ hist' = [hist EXCEPT !.catalogCalls = @ + 1,
                                         !.catalogLog = Append(@, e.Error)]
            ELSE /\ doc' = e
                 /\ pc' = "Failed to add to catalog.json"
                 /\ UNCHANGED catRetries
                 /\ hist' = [hist EXCEPT !.catalogCalls = @ + 1,
                                         !.catalogLog = Append(@, e.Error),
                                         !.catalogCaught = TRUE]
    /\ UNCHANGED <<input, status, execError, br, dlq>>

\* Pass 'Failed to add to catalog.json': parameters { error:
\* StringToJson($.Cause) }, resultPath '$.error', next 'Send to Dead Letter
\* Queue'.  A Cause that is not a JSON text fails the state and thereby the
\* execution.
FailedToAddToCatalog_ToFail ==
    /\ status = "RUNNING" /\ pc = "Failed to add to catalog.json"
    /\ IF IsJsonText(doc.Cause)
       THEN /\ doc' = Put(doc, "error", [error |-> StringToJson(doc.Cause)])
            /\ pc' = "Fail"
            /\ hist' = [hist EXCEPT !.route = "Catch"]
            /\ UNCHANGED <<status, execError>>
       ELSE /\ status' = "FAILED"
            /\ execError' = "States.Runtime"
            /\ UNCHANGED <<doc, pc, hist>>
    /\ UNCHANGED <<input, br, catRetries, dlq>>

FailedToAddToCatalog ==
    /\ status = "RUNNING" /\ pc = "Failed to add to catalog.json"
    /\ IF IsJsonText(doc.Cause)
       THEN /\ doc' = Put(doc, "error", [error |-> StringToJson(doc.Cause)])
            /\ pc' = "Send to Dead Letter Queue"
            /\ hist' = [hist EXCEPT !.route = "Catch"]
            /\ UNCHANGED <<status, execError>>
       ELSE /\ status' = "FAILED"
            /\ execError' = "States.Runtime"
            /\ UNCHANGED <<doc, pc, hist>>
    /\ UNCHANGED <<input, br, catRetries, dlq>>

\* Choice 'Any Failure?': some $.DocGen[i].error is present -> 'Send to Dead
\* Letter Queue'; otherwise 'Success'.
AnyFailureCondition_First == IsPresent(doc, 1, "error")
AnyFailureCondition_All == \A i \in Branches : IsPresent(doc, i, "error")
AnyFailureCondition == \E i \in Branches : IsPresent(doc, i, "error")

sendToDlqIfNeeded ==
    /\ status = "RUNNING" /\ pc = "Any Failure?"
    /\ IF AnyFailureCondition
       THEN /\ pc' = "Send to Dead Letter Queue"
            /\ hist' = [hist EXCEPT !.route = "Any Failure?"]
       ELSE /\ pc' = "Success"
            /\ UNCHANGED hist
    /\ UNCHANGED <<input, doc, status, execError, br, catRetries, dlq>>

\* SqsSendMessage 'Send to Dead Letter Queue': messageBody is the whole
\* document, the task result is discarded, next 'Fail'.
sendToDeadLetterQueue ==
    /\ status = "RUNNING" /\ pc = "Send to Dead Letter Queue"
    /\ dlq' = Append(dlq, doc)
    /\ pc' = "Fail"
    /\ UNCHANGED <<input, doc, status, execError, br, catRetries, hist>>

\* The task has no retrier and no catcher: when the send fails, the execution
\* fails with the error of the task.
sendToDeadLetterQueueFails ==
    /\ status = "RUNNING" /\ pc = "Send to Dead Letter Queue"
    /\ status' = "FAILED"
    /\ execError' = "SQS.SdkClientException"
    /\ hist' = [hist EXCEPT !.sendFailed = TRUE]
    /\ UNCHANGED <<input, doc, pc, br, catRetries, dlq>>

\* Fail 'Fail' and Succeed 'Success' end the execution.
Fail ==
    /\ status = "RUNNING" /\ pc = "Fail"
    /\ status' = "FAILED"
    /\ execError' = "States.Failed"
    /\ UNCHANGED <<input, doc, pc, br, catRetries, dlq, hist>>

Success ==
    /\ status = "RUNNING" /\ pc = "Success"
    /\ status' = "SUCCEEDED"
    /\ UNCHANGED <<input, doc, pc, execError, br, catRetries, dlq, hist>>

\* StateMachine timeout (one hour): a running execution that exceeds it is
\* stopped where it is, with status TIMED_OUT; no further state runs.
Timeout ==
    /\ status = "RUNNING"
    /\ status' = "TIMED_OUT"
    /\ execError' = "States.Timeout"
    /\ br' = StopBranches
    /\ UNCHANGED <<input, doc, pc, catRetries, dlq, hist>>

----------------------------------------------------------------------------
(* The redrive function (RedriveStateMachine, given QUEUE_URL and            *)
(* STATE_MACHINE_ARN): it drains the dead letter queue message by message,   *)
(* starts an execution with each message as input and removes the message    *)
(* once the start was acknowledged.                                          *)

MaxMessages == 3    \* messages that may ever be in the queue
MaxRuns == 2        \* runs of the redrive function

Messages == 1..MaxMessages

RedriveIdle(q) ==
    [pc |-> "idle",
     queue |-> q,               \* messages in the queue
     batch |-> {},              \* messages in the queue when the run began
     todo |-> {},               \* of these, the ones not yet processed
     cur |-> 0,                 \* the message being processed
     attempted |-> 0, succeeded |-> 0, failed |-> 0,
     calls |-> [m \in Messages |-> 0],   \* start calls made for m
     acks |-> [m \in Messages |-> 0],    \* of these, acknowledged
     removed |-> {},            \* messages the function removed
     runs |-> 0]

\* redrive(): a run begins, facing the messages now in the queue.
RedriveBegin ==
    /\ redrive.pc \in {"idle", "done", "crashed"}
    /\ redrive.runs < MaxRuns
    /\ redrive' = [redrive EXCEPT !.pc = "drain", !.batch = redrive.queue,
                                  !.todo = redrive.queue, !.cur = 0,
                                  !.attempted = 0, !.succeeded = 0,
                                  !.failed = 0, !.runs = @ + 1]

\* The next message is received and start(originalInput) is called.
RedriveReceive ==
    /\ redrive.pc = "drain"
    /\ \E m \in redrive.todo :
         redrive' = [redrive EXCEPT !.pc = "start", !.cur = m,
                                    !.todo = @ \ {m},
                                    !.attempted = @ + 1,
                                    !.calls[m] = @ + 1]

\* The start is acknowledged: the message is to be removed.
RedriveStartAcknowledged ==
    /\ redrive.pc = "start"
    /\ redrive' = [redrive EXCEPT !.pc = "delete",
                                  !.acks[redrive.cur] = @ + 1,
                                  !.succeeded = @ + 1]

\* The start fails: the message is left in place.
RedriveStartFails_Removes ==
    /\ redrive.pc = "start"
    /\ redrive' = [redrive EXCEPT !.pc = "drain", !.failed = @ + 1,
                                  !.queue = @ \ {redrive.cur},
                                  !.removed = @ \cup {redrive.cur}]

RedriveStartFails_Uncounted ==
    /\ redrive.pc = "start"
    /\ redrive' = [redrive EXCEPT !.pc = "drain"]

RedriveStartFails ==
    /\ redrive.pc = "start"
    /\ redrive' = [redrive EXCEPT !.pc = "drain", !.failed = @ + 1]

\* The message whose start was acknowledged is removed from the queue.
RedriveRemove ==
    /\ redrive.pc = "delete"
    /\ redrive' = [redrive EXCEPT !.pc = "drain",
                                  !.queue = @ \ {redrive.cur},
                                  !.removed = @ \cup {redrive.cur}]

\* Every message of the run was processed: the counts are returned.
RedriveReturn ==
    /\ redrive.pc = "drain" /\ redrive.todo = {}
    /\ redrive' = [redrive EXCEPT !.pc = "done"]

\* The function crashes in the middle of a drain.
RedriveCrash ==
    /\ redrive.pc \in {"drain", "start", "delete"}
    /\ redrive' = [redrive EXCEPT !.pc = "crashed"]

\* A failed execution leaves a new message in the queue.
MessageArrives ==
    /\ \E m \in Messages \ (redrive.queue \cup redrive.removed) :
         redrive' = [redrive EXCEPT !.queue = @ \cup {m}]

----------------------------------------------------------------------------
(* The clean-up function (CleanUpEfs, given EFS_MOUNT_PATH and IGNORE_DIRS,  *)
(* run every hour): it lists the top-level entries of the mounted file       *)
(* system and deletes each one that is not an ignored directory, while the   *)
(* DocGen tasks of running executions use the same file system.              *)

\* const efsMountPath = '/mnt/efs'
efsMountPath == "/mnt/efs"

\* IGNORE_DIRS: `${efsMountPath}/HOME`
IGNORE_DIRS_NoSeparator == efsMountPath \o "HOME"
IGNORE_DIRS == efsMountPath \o "/HOME"

\* Names of top-level entries of the file system.
EntryNames == {"HOME", "HOME-old", "exec-1", "exec-2"}

PathOf(name) == efsMountPath \o "/" \o name

IsIgnored(name) == PathOf(name) = IGNORE_DIRS

EfsIdle(e) ==
    [pc |-> "idle",
     entries |-> e,     \* top-level entries present
     listed |-> {},     \* the entries the run listed
     todo |-> {},       \* of these, the ones not yet looked at
     cleaned |-> {},    \* the entries the run deleted
     count |-> 0]       \* their number, as reported

\* cleanup(): a run lists the top-level entries.
CleanupList ==
    /\ efs.pc \in {"idle", "done"}
    /\ efs' = [efs EXCEPT !.pc = "delete", !.listed = efs.entries,
                          !.todo = efs.entries, !.cleaned = {}, !.count = 0]

\* The next listed entry is deleted, unless it is an ignored directory.
CleanupEntry ==
    /\ efs.pc = "delete"
    /\ \E n \in efs.todo :
         efs' = IF IsIgnored(n)
                THEN [efs EXCEPT !.todo = @ \ {n}]
                ELSE [efs EXCEPT !.todo = @ \ {n}, !.entries = @ \ {n},
                                 !.cleaned = @ \cup {n}, !.count = @ + 1]

\* Every listed entry was looked at: the run reports its count and ends.
CleanupDone ==
    /\ efs.pc = "delete" /\ efs.todo = {}
    /\ efs' = [efs EXCEPT !.pc = "done"]

\* A DocGen task of some running execution creates or deletes an entry.
TaskCreatesEntry ==
    \E n \in EntryNames \ efs.entries :
        efs' = [efs EXCEPT !.entries = @ \cup {n}]

TaskDeletesEntry ==
    \E n \in efs.entries :
        efs' = [efs EXCEPT !.entries = @ \ {n}]

----------------------------------------------------------------------------
(* Specifications *)

Init ==
    /\ InitExecution
    /\ redrive = RedriveIdle({})
    /\ efs = EfsIdle({"HOME"})

Next ==
    \/ TrackExecutionInfos /\ UNCHANGED <<redrive, efs>>
    \/ (\E i \in Branches : GenerateDocsSucceeds(i)) /\ UNCHANGED <<redrive, efs>>
    \/ (\E i \in Branches : GenerateDocsFails(i)) /\ UNCHANGED <<redrive, efs>>
    \/ (\E i \in Branches : FailedLanguage(i)) /\ UNCHANGED <<redrive, efs>>
    \/ DocGen /\ UNCHANGED <<redrive, efs>>
    \/ AnySuccess /\ UNCHANGED <<redrive, efs>>
    \/ addToCatalogSucceeds /\ UNCHANGED <<redrive, efs>>
    \/ addToCatalogFails /\ UNCHANGED <<redrive, efs>>
    \/ FailedToAddToCatalog /\ UNCHANGED <<redrive, efs>>
    \/ sendToDlqIfNeeded /\ UNCHANGED <<redrive, efs>>
    \/ sendToDeadLetterQueue /\ UNCHANGED <<redrive, efs>>
    \/ sendToDeadLetterQueueFails /\ UNCHANGED <<redrive, efs>>
    \/ Fail /\ UNCHANGED <<redrive, efs>>
    \/ Success /\ UNCHANGED <<redrive, efs>>
    \/ Timeout /\ UNCHANGED <<redrive, efs>>

Spec == Init /\ [][Next]_vars

\* The steps of the states of the definition: each task invocation and each
\* send returns (a result or an error) and the engine then moves on.
StateStep ==
    \/ TrackExecutionInfos
    \/ \E i \in Branches : GenerateDocsSucceeds(i)
    \/ \E i \in Branches : GenerateDocsFails(i)
    \/ \E i \in Branches : FailedLanguage(i)
    \/ DocGen
    \/ AnySuccess
    \/ addToCatalogSucceeds
    \/ addToCatalogFails
    \/ FailedToAddToCatalog
    \/ sendToDlqIfNeeded
    \/ sendToDeadLetterQueue
    \/ sendToDeadLetterQueueFails
    \/ Fail
    \/ Success

SpecLive == Spec /\ WF_vars(StateStep /\ UNCHANGED <<redrive, efs>>)

\* The redrive function, facing any queue.
InitRedrive ==
    /\ InitExecution /\ input = WorkItem
    /\ redrive \in {RedriveIdle(q) : q \in SUBSET Messages}
    /\ efs = EfsIdle({"HOME"})

NextRedrive ==
    \/ RedriveBegin /\ UNCHANGED <<execVars, efs>>
    \/ RedriveReceive /\ UNCHANGED <<execVars, efs>>
    \/ RedriveStartAcknowledged /\ UNCHANGED <<execVars, efs>>
    \/ RedriveStartFails /\ UNCHANGED <<execVars, efs>>
    \/ RedriveRemove /\ UNCHANGED <<execVars, efs>>
    \/ RedriveReturn /\ UNCHANGED <<execVars, efs>>
    \/ RedriveCrash /\ UNCHANGED <<execVars, efs>>
    \/ MessageArrives /\ UNCHANGED <<execVars, efs>>

SpecRedrive == InitRedrive /\ [][NextRedrive]_vars

\* The clean-up function, facing any content of the file system.
InitCleanup ==
    /\ InitExecution /\ input = WorkItem
    /\ redrive = RedriveIdle({})
    /\ efs \in {EfsIdle(e) : e \in SUBSET EntryNames}

NextCleanup ==
    \/ CleanupList /\ UNCHANGED <<execVars, redrive>>
    \/ CleanupEntry /\ UNCHANGED <<execVars, redrive>>
    \/ CleanupDone /\ UNCHANGED <<execVars, redrive>>
    \/ TaskCreatesEntry /\ UNCHANGED <<execVars, redrive>>
    \/ TaskDeletesEntry /\ UNCHANGED <<execVars, redrive>>

SpecCleanup == InitCleanup /\ [][NextCleanup]_vars

----------------------------------------------------------------------------
(* Observations used by the properties *)

\* Branch i has ended with a result carrying the given tag.
Tagged(i, tag) == br[i].pc = "Done" /\ tag \in DOMAIN br[i].out[1]

AllBranchesEnded == \A i \in Branches : br[i].pc = "Done"
SomeSuccess == \E i \in Branches : Tagged(i, "success")
SomeError == \E i \in Branches : Tagged(i, "error")
NoSuccess == \A i \in Branches : Tagged(i, "error")

\* The states after the 'Any Success?' choice has been taken.
PastAnySuccess ==
    pc \in {"Add to catalog.json", "Failed to add to catalog.json",
            "Any Failure?", "Send to Dead Letter Queue", "Fail", "Success"}

\* The keys under which states of the definition put their results.
ResultKeys == {"$TaskExecution", docGenResultsKey, "catalogBuilderOutput"}

CatalogStates == {"Add to catalog.json", "Failed to add to catalog.json"}

----------------------------------------------------------------------------
(* Properties *)

\* C1: when every DocGen branch ended in a caught error (no result carries
\* a success tag), 'Add to catalog.json' is never entered and the catalog
\* function never invoked; 'Any Success?' goes straight to 'Any Failure?'.
C1_NoSuccessSkipsCatalog ==
    /\ [](NoSuccess => /\ hist.catalogEntries = 0
                       /\ hist.catalogCalls = 0
                       /\ pc \notin CatalogStates)
    /\ [][(NoSuccess /\ pc = "Any Success?" /\ pc' # pc)
            => pc' = "Any Failure?"]_vars

C1_Witness ==
    /\ NoSuccess /\ hist.order = <<2, 1>>
    /\ pc = "Any Failure?" /\ hist.catalogEntries = 0

\* C2: when some branch result carries a success tag, 'Add to catalog.json'
\* is entered exactly once (its retries belong to that one entry), and only
\* after every branch of DocGen has produced its result.
C2_SomeSuccessOneCatalogEntry ==
    /\ [](hist.catalogEntries <= 1)
    /\ []((PastAnySuccess /\ SomeSuccess) => hist.catalogEntries = 1)
    /\ []((hist.catalogEntries > 0 \/ hist.catalogCalls > 0)
            => (AllBranchesEnded /\ hist.joined /\ SomeSuccess))
    /\ [][hist.catalogEntries' # hist.catalogEntries
            => (AllBranchesEnded /\ hist.joined /\ pc = "Any Success?")]_vars

C2_Witness ==
    /\ SomeSuccess /\ SomeError
    /\ pc = "Any Failure?" /\ hist.catalogEntries = 1 /\ catRetries = 2

\* C3: a message of the execution is in the dead letter queue if and only if
\* the execution ended failed, and an execution that ended failed has exactly
\* one message, on every path to a failed end (branch error, catalog
\* failure, timeout, failing send).
C3_MessageIffFailed ==
    status # "RUNNING"
        => /\ Len(dlq) <= 1
           /\ (Len(dlq) = 1) <=> (status \in {"FAILED", "TIMED_OUT"})

\* C4: the message written for an execution that ends in 'Fail', on the
\* 'Any Failure?' route and on the catch route of 'Add to catalog.json',
\* holds every field of the trigger payload with its initial value.
C4_MessageKeepsInput ==
    (pc = "Fail" /\ status = "FAILED")
        => /\ Len(dlq) = 1
           /\ \A k \in WorkItemKeys \cap DOMAIN input :
                 k \in DOMAIN dlq[1] /\ dlq[1][k] = input[k]

\* C5: an execution that exceeded its timeout has ended failed with a
\* message written for it to the dead letter queue.
C5_TimeoutWritesMessage ==
    status = "TIMED_OUT" => Len(dlq) = 1

\* C6: when the send to the dead letter queue failed, the execution is not
\* observable as failed with its message absent from the queue.
C6_SendFailureNotFailed ==
    hist.sendFailed => ~(status = "FAILED" /\ Len(dlq) = 0)

\* C7: state 'Fail' is entered only from 'Send to Dead Letter Queue', by the
\* step that delivers the message, so the message is in the queue before the
\* execution is failed by 'Fail', on both routes.
C7_DeliveredBeforeFail ==
    /\ [][(pc' = "Fail" /\ pc # "Fail")
            => (pc = "Send to Dead Letter Queue" /\ dlq' = Append(dlq, doc))]_vars
    /\ [](pc = "Fail" => (Len(dlq) = 1 /\ dlq[1] = doc))
    /\ []((status = "FAILED" /\ execError = "States.Failed")
            => (pc = "Fail" /\ Len(dlq) = 1))

C7_Witness ==
    /\ status = "FAILED" /\ pc = "Fail" /\ hist.route = "Catch"
    /\ dlq = <<doc>>

\* C8: DocGen completes only when every branch has produced a result; an
\* error in a branch is caught in the branch, stops no other branch and does
\* not end the execution before the join.
C8_FanOutBarrier ==
    /\ hist.joined => AllBranchesEnded
    /\ status = "FAILED" => hist.joined
    /\ status # "TIMED_OUT" => \A i \in Branches : br[i].pc # "Aborted"

\* C9: after DocGen, $.DocGen has one entry per supported language, entry i
\* being the one result branch i produced, whatever the order the branches
\* ended in, and carrying exactly one of the tags success (the payload) and
\* error (the structured cause).
C9_BranchResults ==
    /\ \A i \in Branches : hist.produced[i] <= 1
    /\ (hist.joined /\ docGenResultsKey \in DOMAIN doc)
         => /\ Len(doc[docGenResultsKey]) = Len(SUPPORTED_LANGUAGES)
            /\ \A i \in Branches :
                 LET r == doc[docGenResultsKey][i] IN
                 /\ hist.produced[i] = 1
                 /\ r = br[i].out[1]
                 /\ r.language = SUPPORTED_LANGUAGES[i]
                 /\ ("success" \in DOMAIN r) # ("error" \in DOMAIN r)
                 /\ "success" \in DOMAIN r => r.success \in DocGenPayloads
                 /\ "error" \in DOMAIN r => r.error = StringToJson(JsonCause)

C9_Witness ==
    /\ hist.joined /\ pc = "Any Success?" /\ hist.order = <<2, 1>>
    /\ Tagged(1, "error") /\ Tagged(2, "success")
    /\ doc[docGenResultsKey][2].language = "typescript"

\* C10: 'Any Failure?' decides the end of every execution that reaches it:
\* with an error-tagged result the whole document (trigger payload, all
\* branch results, the catalog output when the catalog update ran) is the one
\* message sent and the execution goes to 'Fail', also when another branch
\* succeeded; with none the execution ends in 'Success' with no message.
C10_DlqCheckDecides ==
    /\ [][(pc = "Any Failure?" /\ pc' # pc)
            => pc' = IF SomeError THEN "Send to Dead Letter Queue"
                                  ELSE "Success"]_vars
    /\ []((pc = "Success" \/ status = "SUCCEEDED")
            => (~SomeError /\ dlq = <<>> /\ status # "FAILED"))
    /\ []((pc = "Fail" /\ hist.route = "Any Failure?")
            => /\ SomeError
               /\ dlq = <<doc>>
               /\ \A k \in DOMAIN input \ ResultKeys :
                     k \in DOMAIN doc /\ doc[k] = input[k]
               /\ doc[docGenResultsKey] = [i \in Branches |-> br[i].out[1]]
               /\ hist.catalogEntries = 1
                     => /\ "catalogBuilderOutput" \in DOMAIN doc
                        /\ doc.catalogBuilderOutput \in CatalogPayloads)

C10_Witness ==
    /\ status = "FAILED" /\ pc = "Fail" /\ hist.route = "Any Failure?"
    /\ SomeSuccess /\ SomeError
    /\ "catalogBuilderOutput" \in DOMAIN dlq[1]

\* C11: once the catalog update has failed (its catcher was taken), the
\* structured cause is put in the document, the execution goes to 'Send to
\* Dead Letter Queue' and ends failed there; it never reaches 'Any Failure?'
\* and never ends in 'Success'.
C11_CatalogFailureRouted ==
    hist.catalogCaught
        => /\ pc \notin {"Any Failure?", "Success"}
           /\ status # "SUCCEEDED"
           /\ pc \in {"Send to Dead Letter Queue", "Fail"}
                 => ("error" \in DOMAIN doc /\ hist.route = "Catch")
           /\ status = "FAILED" => pc \in {"Send to Dead Letter Queue", "Fail"}

\* The outcomes of the catalog invocations before the last one.
EarlierCatalogOutcomes ==
    {hist.catalogLog[k] : k \in 1..(Len(hist.catalogLog) - 1)}

Throttled(n) == [k \in 1..n |-> TooManyRequests]

\* C12 (as stated): the catalog task is retried only after a 'too many
\* requests' error, any other error goes to the catch handler unretried, four
\* throttles and then a success end in 'Success' with no message, and the
\* task is invoked at most CatalogMaxAttempts (5) times.
C12_AtMostMaxAttemptsCalls ==
    /\ hist.catalogCalls <= CatalogMaxAttempts
    /\ EarlierCatalogOutcomes \subseteq {TooManyRequests}

\* C12 (amended): the same, the task being invoked at most
\* CatalogMaxAttempts + 1 times: the first attempt and at most
\* CatalogMaxAttempts (5) retries.
C12_AtMostMaxAttemptsRetries ==
    /\ [](/\ hist.catalogCalls = Len(hist.catalogLog)
          /\ hist.catalogCalls <= CatalogMaxAttempts + 1
          /\ catRetries <= CatalogMaxAttempts
          /\ EarlierCatalogOutcomes \subseteq {TooManyRequests}
          /\ (hist.catalogLog # <<>> /\ pc = "Add to catalog.json")
                => hist.catalogLog = Throttled(catRetries))
    /\ []((hist.catalogLog = Throttled(4) \o <<"ok">> /\ ~SomeError
            /\ status \in {"SUCCEEDED", "FAILED"})
            => (status = "SUCCEEDED" /\ dlq = <<>>))
    /\ [][hist.catalogLog' # hist.catalogLog
            => LET outcome == hist.catalogLog'[Len(hist.catalogLog')] IN
               /\ pc = "Add to catalog.json"
               /\ outcome \notin {"ok", TooManyRequests}
                     => pc' = "Failed to add to catalog.json"
               /\ pc' = pc
                     => (outcome = TooManyRequests
                          /\ catRetries' = catRetries + 1)]_vars

C12_Witness ==
    /\ hist.catalogLog = Throttled(4) \o <<"ok">>
    /\ status = "SUCCEEDED" /\ dlq = <<>>

\* C16: a DocGen task is invoked a bounded number of times (the first
\* attempt and at most BranchMaxAttempts retries), and a branch whose error
\* was caught then produces the result { error, language } with the
\* structured cause; the error is not propagated.
C16_BranchBoundedThenCaught ==
    \A i \in Branches :
        /\ hist.calls[i] <= BranchMaxAttempts + 1
        /\ br[i].retries <= BranchMaxAttempts
        /\ (Len(br[i].caught) = 1 /\ br[i].pc # "Failed" /\ status # "TIMED_OUT")
             => /\ Tagged(i, "error")
                /\ br[i].out[1].language = SUPPORTED_LANGUAGES[i]
                /\ br[i].out[1].error = StringToJson(br[i].caught[1].Cause)

AllSuccess == \A i \in Branches : Tagged(i, "success")

CatalogSucceeded ==
    /\ hist.catalogLog # <<>>
    /\ hist.catalogLog[Len(hist.catalogLog)] = "ok"

\* C17: the execution ends in 'Success' if and only if every branch produced
\* a success-tagged result and the catalog update then succeeded; then the
\* catalog stage was entered once, the queue holds no message and the final
\* document holds the execution infos, all branch results and the catalog
\* output.
C17_SuccessIff ==
    /\ status = "SUCCEEDED"
         => /\ AllSuccess /\ CatalogSucceeded
            /\ hist.catalogEntries = 1
            /\ dlq = <<>>
            /\ ResultKeys \subseteq DOMAIN doc
            /\ doc["$TaskExecution"] = ExecutionInfos
            /\ doc[docGenResultsKey] = [i \in Branches |-> br[i].out[1]]
            /\ doc.catalogBuilderOutput \in CatalogPayloads
    /\ (AllSuccess /\ CatalogSucceeded)
         => /\ pc \in {"Any Failure?", "Success"}
            /\ status # "FAILED"
            /\ dlq = <<>>

C17_Witness ==
    /\ status = "SUCCEEDED" /\ input = RedrivenWithCatalog
    /\ hist.catalogLog = <<TooManyRequests, "ok">>

\* The document an execution started with input b holds after the steps this
\* execution has taken, its tasks having returned what this execution's did.
Replay(b) ==
    LET d1 == IF pc = "Track Execution Infos" THEN b
              ELSE Put(b, "$TaskExecution", ExecutionInfos)
        d2 == IF hist.joined THEN Put(d1, docGenResultsKey, DocGenResults) ELSE d1
        d3 == IF CatalogSucceeded
              THEN Put(d2, "catalogBuilderOutput", doc.catalogBuilderOutput)
              ELSE d2
    IN  IF hist.catalogCaught THEN doc ELSE d3

\* C19: the path of an execution does not depend on result fields its input
\* already holds: $.$TaskExecution and $.DocGen are overwritten before a
\* choice reads them, so an execution started with any other input, its
\* tasks returning the same, evaluates both choices the same.
C19_StaleFieldsIgnored ==
    /\ doc = Replay(input)
    /\ pc # "Track Execution Infos" /\ ~hist.catalogCaught
         => doc["$TaskExecution"] = ExecutionInfos
    /\ pc \in {"Any Success?", "Any Failure?"}
         => /\ doc[docGenResultsKey] = [i \in Branches |-> br[i].out[1]]
            /\ \A b \in Inputs :
                 /\ (\E i \in Branches : ~IsPresent(Replay(b), i, "error"))
                      = AnySuccessCondition
                 /\ (\E i \in Branches : IsPresent(Replay(b), i, "error"))
                      = AnyFailureCondition

C19_Witness ==
    /\ input = RedrivenWithCatalog /\ pc = "Any Failure?"
    /\ AllSuccess /\ CatalogSucceeded
    /\ doc[docGenResultsKey] # input[docGenResultsKey]

\* C13: redrive removes a message only after the start of an execution for
\* it was acknowledged; a message whose start fails stays in the queue; a
\* completed drain has called start for every message present when it began;
\* a crash may leave a message started and not removed (it is started again
\* by a later run), never removed and not started.
C13_RemovedOnlyAfterStart ==
    /\ [](\A m \in Messages :
            /\ redrive.acks[m] <= redrive.calls[m]
            /\ m \in redrive.removed
                 => (redrive.acks[m] >= 1 /\ m \notin redrive.queue))
    /\ [][redrive'.removed # redrive.removed
            => /\ redrive.pc = "delete"
               /\ redrive.acks[redrive.cur] >= 1
               /\ redrive'.removed = redrive.removed \cup {redrive.cur}]_vars
    /\ [][(redrive.pc = "start" /\ redrive'.acks = redrive.acks
                                 /\ redrive'.pc = "drain")
            => (redrive'.queue = redrive.queue
                 /\ redrive.cur \in redrive'.queue)]_vars
    /\ [](redrive.pc = "done"
            => \A m \in redrive.batch : redrive.calls[m] >= 1)

C13_Witness ==
    \E m \in Messages :
        /\ redrive.acks[m] = 2 /\ m \in redrive.removed
        /\ redrive.pc = "done"

\* C14: a redrive that ran to completion returns attempted = succeeded +
\* failed, attempted being the number of messages it processed, and the
\* number of these still in the queue equals failed.
C14_RedriveCounts ==
    redrive.pc = "done"
        => /\ redrive.attempted = redrive.succeeded + redrive.failed
           /\ redrive.attempted = Cardinality(redrive.batch)
           /\ Cardinality(redrive.batch \cap redrive.queue) = redrive.failed

C14_Witness ==
    /\ redrive.pc = "done"
    /\ redrive.attempted = 3 /\ redrive.succeeded = 2 /\ redrive.failed = 1
    /\ Cardinality(redrive.queue) = 1

\* C15: a run of the clean-up deletes every top-level entry it listed other
\* than the ignored directory (HOME under the mount path) and never deletes
\* that directory, whatever entries the tasks create or delete meanwhile.
C15_CleanupSparesHome ==
    /\ []("HOME" \notin efs.cleaned)
    /\ [](efs.count = Cardinality(efs.cleaned))
    /\ [](efs.pc = "done" => efs.listed \ {"HOME"} \subseteq efs.cleaned)
    /\ [][(efs.pc = "delete" /\ efs'.todo # efs.todo)
            => /\ "HOME" \in efs.entries => "HOME" \in efs'.entries
               /\ \A n \in efs.todo \ (efs'.todo \cup {"HOME"}) :
                     n \notin efs'.entries /\ n \in efs'.cleaned]_vars

C15_Witness ==
    /\ efs.pc = "done"
    /\ efs.listed = {"HOME", "HOME-old", "exec-1"}
    /\ efs.cleaned = {"HOME-old", "exec-1"}
    /\ efs.entries = {"HOME", "exec-1", "exec-2"}

\* The place of a state in the order of the stages.
StageOf(state) ==
    CASE state = "Track Execution Infos" -> 0
      [] state = "DocGen" -> 1
      [] state = "Any Success?" -> 2
      [] state = "Add to catalog.json" -> 3
      [] state = "Failed to add to catalog.json" -> 4
      [] state = "Any Failure?" -> 4
      [] state = "Send to Dead Letter Queue" -> 5
      [] state = "Fail" -> 6
      [] state = "Success" -> 6

\* The retries still allowed to the tasks.
RetriesLeft ==
    (CatalogMaxAttempts - catRetries)
      + (BranchMaxAttempts - br[1].retries) + (BranchMaxAttempts - br[2].retries)

\* C18: every execution eventually reaches a terminal status (SUCCEEDED,
\* FAILED or TIMED_OUT), each task invocation and each send returning; the
\* stages are passed in their order, never back, and a step that stays in a
\* task state to invoke it again uses up one of its bounded retries.
C18_Terminates ==
    /\ <>(status # "RUNNING")
    /\ [][StageOf(pc') >= StageOf(pc)]_vars
    /\ [](RetriesLeft >= 0)
    /\ [][(status' = "RUNNING" /\ pc' = pc
             /\ \A i \in Branches : br'[i].pc = br[i].pc)
            => RetriesLeft' = RetriesLeft - 1]_execVars

C18_Witness ==
    /\ status = "SUCCEEDED"
    /\ br[1].retries = BranchMaxAttempts
    /\ catRetries = CatalogMaxAttempts

====
